---- MODULE Spec2Model ----
(***************************************************************************)
(* Model of reloadr.py: hot reloading of one decorated class or function.  *)
(* One proxy (ClassReloadr or FuncReloadr) wraps one target definition.    *)
(* The file on disk is edited by the environment; threads of the program   *)
(* run _reload(), construct instances or call the function through the     *)
(* proxy.  _reload() is modelled step by step (build the new definition,   *)
(* store it in _target, retag one instance per step, log), so that other   *)
(* threads interleave where the interpreter lets them.                     *)
(***************************************************************************)
EXTENDS Integers, Sequences, FiniteSets, TLC

\* Bounds of the model.
MaxVer == 2          \* distinct bodies the definition may have on disk
MaxInstances == 2    \* instances constructed through the class proxy
MaxConcInstances == 1 \* the same, when two threads run
MaxObjects == 2      \* definition objects built by exec() over a run
MaxInterval == 2     \* intervals that _start_timer_reload may be given

Threads == {"main", "watch", "timer"}
Kinds == {"class", "def"}
Markers == {"autoreload", "reloadr"}
Layouts == {0, 1}
Xs == {0, 5}

\* The file the target was loaded from, and another file of its directory.
SourcePath == "mod.py"
Paths == {SourcePath, "other.py"}

\* `interval=1`, the default of _timer_reload and _start_timer_reload.
DefaultInterval == 1
Intervals == 1..MaxInterval

VARIABLES kind, marker, file, target, instances, heap, nobj,
          pc, new, idx, inst, callee, src, pre, outcome, exc, logs, lastOk,
          filepath, event, asked, interval, attr

vars == <<kind, marker, file, target, instances, heap, nobj,
          pc, new, idx, inst, callee, src, pre, outcome, exc, logs, lastOk,
          filepath, event, asked, interval, attr>>

----------------------------------------------------------------------------
\* Content of the source file, as far as the reload pipeline can tell.
\*   state: "unparsable" (syntax error), "missing" (parses, no definition of
\*   the name and kind), "raises" (definition present, executing it raises),
\*   "good" (definition present and executable, body `ver`, object layout
\*   `layout`).
NoText == [state |-> "none", ver |-> 0, layout |-> 0]

FileContents(k) ==
    {[state |-> s, ver |-> 0, layout |-> 0] : s \in {"unparsable", "missing", "raises"}}
    \cup {[state |-> "good", ver |-> v, layout |-> l] :
              v \in 1..MaxVer, l \in (IF k = "class" THEN Layouts ELSE {0})}

\* A definition object: `id` is its identity (0 is the object the decorator
\* received, 1.. are built by exec), `proxy` says that the object is itself a
\* reload proxy wrapping the class or function described by ver/layout.
NoObj == [id |-> -1, ver |-> 0, layout |-> 0, proxy |-> FALSE]

Original == [id |-> 0, ver |-> 1, layout |-> 0, proxy |-> FALSE]

\* The class or function reached by calling through `o`.
Raw(o) == [o EXCEPT !.proxy = FALSE]

----------------------------------------------------------------------------
\* get_new_source(target, kind, filepath): the exception it raises, or the
\* source text fragment of the definition (still carrying its decorator).
get_new_source(tgt, k, f) ==
    IF k = "class" /\ tgt.proxy
    THEN [exc |-> "TypeError", source |-> NoText, deco |-> "none"]
    ELSE IF f.state = "unparsable"
    THEN [exc |-> "ParsingError", source |-> NoText, deco |-> "none"]
    ELSE IF tgt.proxy \/ f.state = "missing"
    THEN [exc |-> "AttributeError", source |-> NoText, deco |-> "none"]
    ELSE [exc |-> "none", source |-> f, deco |-> marker]

\* source.replace('@autoreload', ''): the decorator left on the fragment.
StripDecorator(deco) == IF deco = "autoreload" THEN "none" ELSE deco

\* The definition is rebuilt from the text the current target was built from,
\* kept from an earlier read, when the file still has a good definition.
reload_target_cached(tgt, k, f, n) ==
    LET got == get_new_source(tgt, k, f)
        deco == StripDecorator(got.deco)
    IN  IF got.exc # "none" THEN [exc |-> got.exc, obj |-> NoObj]
        ELSE IF got.source.state = "raises" THEN [exc |-> "NameError", obj |-> NoObj]
        ELSE [exc |-> "none",
              obj |-> [id |-> n, ver |-> tgt.ver,
                       layout |-> tgt.layout, proxy |-> deco # "none"]]

\* reload_target(target, kind, filepath): the exception raised, or the value
\* bound to the target's name by exec(); a decorator left on the fragment is
\* applied again and yields a proxy.
reload_target(tgt, k, f, n) ==
    LET got == get_new_source(tgt, k, f)
        deco == StripDecorator(got.deco)
    IN  IF got.exc # "none" THEN [exc |-> got.exc, obj |-> NoObj]
        ELSE IF got.source.state = "raises" THEN [exc |-> "NameError", obj |-> NoObj]
        ELSE [exc |-> "none",
              obj |-> [id |-> n, ver |-> got.source.ver,
                       layout |-> got.source.layout, proxy |-> deco # "none"]]

\* What open(filepath).read() finds: the target's file, or a file that does
\* not define the target.
ContentAt(p) ==
    IF p = SourcePath THEN file ELSE [state |-> "missing", ver |-> 0, layout |-> 0]

\* `filepath or inspect.getsourcefile(target)`: FuncReloadr passes the path
\* it keeps in _filepath, ClassReloadr passes none and the file of the
\* target's module is used.
ReadPath == IF kind = "def" THEN filepath ELSE SourcePath

----------------------------------------------------------------------------
\* A file system event as on_modified receives it, with the number of calls
\* of _reload() made for it so far.
NoEvent == [isDir |-> FALSE, path |-> "none", calls |-> 0]

Events == [isDir : BOOLEAN, path : Paths, calls : {0}]

\* The filter lets every event on a file through, whatever its path.
MatchesAnyFile(ev) == ~ev.isDir

\* `not event.is_directory and event.src_path == filepath`
Matches(ev) == ~ev.isDir /\ ev.path = SourcePath

\* Where a thread is between two operations: the main thread is ready for
\* the next call, the watcher waits for an event.
Rest(t) == IF t = "watch" THEN "wait" ELSE "idle"

\* Result of an attribute access: the exception raised or the value.
NoAttr == [name |-> "none", exc |-> "none", value |-> <<>>]

----------------------------------------------------------------------------
\* The last reload that logged its success: the object it installed and the
\* text it had read.
NoLast == [obj |-> NoObj, text |-> NoText]

\* Snapshot of the proxy and of the instances, taken when the main thread
\* enters _reload(), to compare with what it finds when the call is over.
NoSnap == [target |-> NoObj, heap |-> <<>>]

Init ==
    /\ kind \in Kinds
    /\ marker \in Markers
    /\ file = [state |-> "good", ver |-> 1, layout |-> 0]
    /\ target = Original
    /\ instances = <<>>
    /\ heap = <<>>
    /\ nobj = 0
    /\ pc = [t \in Threads |-> IF t = "timer" THEN "off" ELSE Rest(t)]
    /\ new = [t \in Threads |-> NoObj]
    /\ idx = [t \in Threads |-> 0]
    /\ inst = [t \in Threads |-> 0]
    /\ callee = [t \in Threads |-> NoObj]
    /\ src = [t \in Threads |-> NoText]
    /\ pre = NoSnap
    /\ outcome = [t \in Threads |-> "none"]
    /\ exc = [t \in Threads |-> "none"]
    /\ logs = [t \in Threads |-> <<>>]
    /\ lastOk = NoLast
    /\ filepath = IF kind = "def" THEN SourcePath ELSE "none"
    /\ event = NoEvent
    /\ asked = 0
    /\ interval = 0
    /\ attr = NoAttr

----------------------------------------------------------------------------
\* The environment.

\* A thread is between two calls of _reload().
AtRest(t) == pc[t] \in {"idle", "wait", "sleep"}

\* An editor saves new content to the source file.  The program looks at the
\* file in ReloadStart only, so a save made while every reloading thread (ts)
\* is past that point is seen as late as one made when a thread is at rest
\* again, and is taken then.
Edit(c, ts) ==
    /\ c # file
    /\ \E t \in ts : AtRest(t)
    /\ file' = c
    /\ UNCHANGED <<filepath, event, asked, interval, attr, kind, marker, target, instances, heap, nobj, pc, new, idx,
                   inst, callee, src, pre, outcome, exc, logs, lastOk>>

\* What is left of a collected instance: nothing but the dead weak reference.
Collected == [alive |-> FALSE, cls |-> NoObj, x |-> 0]

\* The instance is collected and its reference is taken out of _instances.
DropPruned(i) ==
    /\ i \in 1..Len(heap)
    /\ heap[i].alive
    /\ \A t \in Threads : inst[t] # i
    /\ heap' = [heap EXCEPT ![i] = Collected]
    /\ instances' = SelectSeq(instances, LAMBDA j : j # i)
    /\ UNCHANGED <<filepath, event, asked, interval, attr, kind, marker, file, target, nobj, pc, new, idx,
                   inst, callee, src, pre, outcome, exc, logs, lastOk>>

\* The program drops its last strong reference to instance i and the
\* instance is collected; the weak reference in _instances does not hold it.
Drop(i) ==
    /\ i \in 1..Len(heap)
    /\ heap[i].alive
    /\ \A t \in Threads : inst[t] # i
    /\ heap' = [heap EXCEPT ![i] = Collected]
    /\ UNCHANGED <<filepath, event, asked, interval, attr, kind, marker, file, target, instances, nobj, pc, new, idx,
                   inst, callee, src, pre, outcome, exc, logs, lastOk>>

----------------------------------------------------------------------------
\* ClassReloadr._reload / FuncReloadr._reload, one step per shared access.

\* Outcome of the statement `self._target = reload_class(self._target)` up
\* to the evaluation of its right-hand side.
ReloadStart(t) ==
    /\ pc[t] = "idle"
    /\ LET r == reload_target(target, kind, ContentAt(ReadPath), nobj + 1)
       IN  /\ r.exc = "none" => nobj < MaxObjects
           /\ pre' = IF t = "main" THEN [target |-> target, heap |-> heap] ELSE pre
           /\ src' = [src EXCEPT ![t] = ContentAt(ReadPath)]
           /\ exc' = [exc EXCEPT ![t] = IF r.exc = "ParsingError" THEN "none" ELSE r.exc]
           /\ new' = [new EXCEPT ![t] = r.obj]
           /\ nobj' = IF r.exc = "none" THEN nobj + 1 ELSE nobj
           /\ logs' = [logs EXCEPT ![t] = IF r.exc = "ParsingError" THEN <<"error">> ELSE <<>>]
           /\ outcome' = [outcome EXCEPT ![t] =
                             IF r.exc = "none" THEN "running"
                             ELSE IF r.exc = "ParsingError" THEN "caught" ELSE "escaped"]
           /\ pc' = [pc EXCEPT ![t] = IF r.exc = "none" THEN "assign" ELSE "done"]
    /\ event' = IF t = "watch" THEN [event EXCEPT !.calls = @ + 1] ELSE event
    /\ UNCHANGED <<filepath, asked, interval, attr, kind, marker, file, target, instances, heap, idx, inst, callee, lastOk>>

\* The new definition is bound to a local name and the proxy keeps the
\* target it had.
ReloadAssignLost(t) ==
    /\ pc[t] = "assign"
    /\ idx' = [idx EXCEPT ![t] = 1]
    /\ pc' = [pc EXCEPT ![t] = IF kind = "class" THEN "retag" ELSE "log"]
    /\ UNCHANGED <<filepath, event, asked, interval, attr, kind, marker, file, target, instances, heap, nobj, new, inst,
                   callee, src, pre, outcome, exc, logs, lastOk>>

\* The store into self._target.
ReloadAssign(t) ==
    /\ pc[t] = "assign"
    /\ target' = new[t]
    /\ idx' = [idx EXCEPT ![t] = 1]
    /\ pc' = [pc EXCEPT ![t] = IF kind = "class" THEN "retag" ELSE "log"]
    /\ UNCHANGED <<filepath, event, asked, interval, attr, kind, marker, file, instances, heap, nobj, new, inst, callee,
                   src, pre, outcome, exc, logs, lastOk>>

\* Truth value of an instance: the class may define __len__ or __bool__ over
\* the instance's attributes; here an instance is false when its x is 0.
Truth(h) == h.x # 0

\* `if instance:` on the result of ref(): a dead reference gives None, a live
\* one gives the instance, which is tested for its truth value.
Retaggable(h) == h.alive /\ Truth(h)

\* `instance.__class__ = self._target` is refused for a value that is not a
\* class and for a class whose object layout differs.
RetagAllowed(h, tgt) == ~tgt.proxy /\ tgt.layout = h.cls.layout

\* One iteration of `for ref in self._instances`, or the end of the loop.
ReloadRetag(t) ==
    /\ pc[t] = "retag"
    /\ IF idx[t] > Len(instances)
       THEN /\ pc' = [pc EXCEPT ![t] = "log"]
            /\ UNCHANGED <<heap, idx, outcome, exc>>
       ELSE LET i == instances[idx[t]]
            IN  IF ~Retaggable(heap[i])
                THEN /\ idx' = [idx EXCEPT ![t] = idx[t] + 1]
                     /\ UNCHANGED <<heap, pc, outcome, exc>>
                ELSE IF RetagAllowed(heap[i], target)
                THEN /\ heap' = [heap EXCEPT ![i].cls = target]
                     /\ idx' = [idx EXCEPT ![t] = idx[t] + 1]
                     /\ UNCHANGED <<pc, outcome, exc>>
                ELSE /\ exc' = [exc EXCEPT ![t] = "TypeError"]
                     /\ outcome' = [outcome EXCEPT ![t] = "escaped"]
                     /\ pc' = [pc EXCEPT ![t] = "done"]
                     /\ UNCHANGED <<heap, idx>>
    /\ UNCHANGED <<filepath, event, asked, interval, attr, kind, marker, file, target, instances, nobj, new, inst, callee,
                   src, pre, logs, lastOk>>

\* logging.info('Reloaded {}'.format(self._target.__name__)): a proxy has no
\* __name__ and its __getattr__ raises AttributeError.
ReloadLog(t) ==
    /\ pc[t] = "log"
    /\ IF target.proxy
       THEN /\ exc' = [exc EXCEPT ![t] = "AttributeError"]
            /\ outcome' = [outcome EXCEPT ![t] = "escaped"]
            /\ UNCHANGED <<logs, lastOk>>
       ELSE /\ logs' = [logs EXCEPT ![t] = Append(logs[t], "info")]
            /\ outcome' = [outcome EXCEPT ![t] = "ok"]
            /\ lastOk' = [obj |-> new[t], text |-> src[t]]
            /\ UNCHANGED exc
    /\ pc' = [pc EXCEPT ![t] = "done"]
    /\ UNCHANGED <<filepath, event, asked, interval, attr, kind, marker, file, target, instances, heap, nobj, new, idx,
                   inst, callee, src, pre>>

\* _reload() has returned or raised; its caller goes on: the main thread
\* with its next operation, the watcher with the end of on_modified.
ReloadReturn(t) ==
    /\ pc[t] = "done"
    /\ t # "timer"
    /\ pc' = [pc EXCEPT ![t] = Rest(t)]
    /\ event' = IF t = "watch" THEN NoEvent ELSE event
    /\ new' = [new EXCEPT ![t] = NoObj]
    /\ idx' = [idx EXCEPT ![t] = 0]
    /\ src' = [src EXCEPT ![t] = NoText]
    /\ pre' = IF t = "main" THEN NoSnap ELSE pre
    /\ outcome' = [outcome EXCEPT ![t] = "none"]
    /\ exc' = [exc EXCEPT ![t] = "none"]
    /\ logs' = [logs EXCEPT ![t] = <<>>]
    /\ UNCHANGED <<filepath, asked, interval, attr, kind, marker, file, target, instances, heap, nobj, inst, callee, lastOk>>

----------------------------------------------------------------------------
\* ClassReloadr.__call__

\* `instance = self._target.__call__(*args, **kwargs)`: the constructor of
\* the class reached through the current target builds the instance.
Construct(t, x, limit) ==
    /\ pc[t] = "idle"
    /\ t = "main"
    /\ kind = "class"
    /\ Len(heap) < limit
    /\ heap' = Append(heap, [alive |-> TRUE, cls |-> Raw(target), x |-> x])
    /\ inst' = [inst EXCEPT ![t] = Len(heap) + 1]
    /\ pc' = [pc EXCEPT ![t] = "register"]
    /\ UNCHANGED <<filepath, event, asked, interval, attr, kind, marker, file, target, instances, nobj, new, idx, callee,
                   src, pre, outcome, exc, logs, lastOk>>

\* `self._instances.append(weakref.ref(instance))`
Register(t) ==
    /\ pc[t] = "register"
    /\ instances' = Append(instances, inst[t])
    /\ pc' = [pc EXCEPT ![t] = "constructed"]
    /\ UNCHANGED <<filepath, event, asked, interval, attr, kind, marker, file, target, heap, nobj, new, idx, inst, callee,
                   src, pre, outcome, exc, logs, lastOk>>

\* `return instance`: the caller now owns the only strong reference.
ConstructReturn(t) ==
    /\ pc[t] = "constructed"
    /\ pc' = [pc EXCEPT ![t] = "idle"]
    /\ inst' = [inst EXCEPT ![t] = 0]
    /\ UNCHANGED <<filepath, event, asked, interval, attr, kind, marker, file, target, instances, heap, nobj, new, idx,
                   callee, src, pre, outcome, exc, logs, lastOk>>

----------------------------------------------------------------------------
\* FuncReloadr.__call__

\* `return self._target.__call__(*args, **kwargs)`: the function that runs.
FuncCall(t) ==
    /\ pc[t] = "idle"
    /\ t = "main"
    /\ kind = "def"
    /\ callee' = [callee EXCEPT ![t] = Raw(target)]
    /\ pc' = [pc EXCEPT ![t] = "called"]
    /\ UNCHANGED <<filepath, event, asked, interval, attr, kind, marker, file, target, instances, heap, nobj, new, idx,
                   inst, src, pre, outcome, exc, logs, lastOk>>

FuncReturn(t) ==
    /\ pc[t] = "called"
    /\ pc' = [pc EXCEPT ![t] = "idle"]
    /\ callee' = [callee EXCEPT ![t] = NoObj]
    /\ UNCHANGED <<filepath, event, asked, interval, attr, kind, marker, file, target, instances, heap, nobj, new, idx,
                   inst, src, pre, outcome, exc, logs, lastOk>>

----------------------------------------------------------------------------
\* ClassReloadr.__getattr__ / FuncReloadr.__getattr__

\* Names looked up in the model: one that the proxy object has itself, one
\* that classes and functions have.
ProxyOwn == {"_target"}
TargetNames == {"__name__"}
Names == ProxyOwn \cup TargetNames

\* The attributes of an object: a proxy has those of its class, among them
\* __getattr__; a class or function has no __getattr__ attribute.
AttrsOf(o) == IF o.proxy THEN ProxyOwn \cup {"__getattr__"} ELSE TargetNames

\* Plain lookup of n on o.
Lookup(o, n) ==
    IF n \in AttrsOf(o)
    THEN [name |-> n, exc |-> "none", value |-> <<o.id, n>>]
    ELSE [name |-> n, exc |-> "AttributeError", value |-> <<>>]

\* `self._target.__getattr__(name)` for a proxy whose target is o: the lookup
\* of __getattr__ on o, then the call of what was found.  When o is a proxy
\* itself, what is found forwards the same way to the object it wraps.
Forward(o, n) ==
    IF Lookup(o, "__getattr__").exc # "none"
    THEN [name |-> n, exc |-> "AttributeError", value |-> <<>>]
    ELSE IF Lookup(Raw(o), "__getattr__").exc # "none"
    THEN [name |-> n, exc |-> "AttributeError", value |-> <<>>]
    ELSE Lookup(Raw(o), n)

\* proxy.n: the proxy's own attribute, or the result of its __getattr__.
GetAttr(t, n) ==
    /\ pc[t] = "idle"
    /\ t = "main"
    /\ attr' = IF n \in ProxyOwn
               THEN [name |-> n, exc |-> "none", value |-> <<-2, n>>]
               ELSE Forward(target, n)
    /\ pc' = [pc EXCEPT ![t] = "got"]
    /\ UNCHANGED <<filepath, event, asked, interval, kind, marker, file, target,
                   instances, heap, nobj, new, idx, inst, callee, src, pre,
                   outcome, exc, logs, lastOk>>

GetAttrReturn(t) ==
    /\ pc[t] = "got"
    /\ pc' = [pc EXCEPT ![t] = "idle"]
    /\ attr' = NoAttr
    /\ UNCHANGED <<filepath, event, asked, interval, kind, marker, file, target,
                   instances, heap, nobj, new, idx, inst, callee, src, pre,
                   outcome, exc, logs, lastOk>>

----------------------------------------------------------------------------
\* GenericReloadr._start_watch_reload: EventHandler.on_modified

\* The observer thread hands an event to on_modified, which calls _reload()
\* for it or returns at once.
OnModified(t, ev) ==
    /\ t = "watch"
    /\ pc[t] = "wait"
    /\ event' = ev
    /\ pc' = [pc EXCEPT ![t] = IF Matches(ev) THEN "idle" ELSE "ignored"]
    /\ UNCHANGED <<filepath, asked, interval, attr, kind, marker, file, target,
                   instances, heap, nobj, new, idx, inst, callee, src, pre,
                   outcome, exc, logs, lastOk>>

\* on_modified returns without a call.
OnModifiedReturn(t) ==
    /\ pc[t] = "ignored"
    /\ pc' = [pc EXCEPT ![t] = "wait"]
    /\ event' = NoEvent
    /\ UNCHANGED <<filepath, asked, interval, attr, kind, marker, file, target,
                   instances, heap, nobj, new, idx, inst, callee, src, pre,
                   outcome, exc, logs, lastOk>>

----------------------------------------------------------------------------
\* GenericReloadr._start_timer_reload / GenericReloadr._timer_reload

\* _start_timer_reload(i): the thread is created with target=self._timer_reload
\* and no arguments, so _timer_reload runs with its default interval.
StartTimer(t, i) ==
    /\ t = "main"
    /\ pc[t] = "idle"
    /\ pc["timer"] = "off"
    /\ asked' = i
    /\ interval' = DefaultInterval
    /\ pc' = [pc EXCEPT !["timer"] = "idle"]
    /\ UNCHANGED <<filepath, event, attr, kind, marker, file, target,
                   instances, heap, nobj, new, idx, inst, callee, src, pre,
                   outcome, exc, logs, lastOk>>

\* _reload() has returned in the loop: sleep(interval).
TimerSleep(t) ==
    /\ t = "timer"
    /\ pc[t] = "done"
    /\ outcome[t] # "escaped"
    /\ pc' = [pc EXCEPT ![t] = "sleep"]
    /\ new' = [new EXCEPT ![t] = NoObj]
    /\ idx' = [idx EXCEPT ![t] = 0]
    /\ src' = [src EXCEPT ![t] = NoText]
    /\ outcome' = [outcome EXCEPT ![t] = "none"]
    /\ logs' = [logs EXCEPT ![t] = <<>>]
    /\ UNCHANGED <<filepath, event, asked, interval, attr, kind, marker, file,
                   target, instances, heap, nobj, inst, callee, pre, exc, lastOk>>

\* _reload() has raised in the loop: nothing in _timer_reload catches the
\* exception and the thread ends.
TimerDie(t) ==
    /\ t = "timer"
    /\ pc[t] = "done"
    /\ outcome[t] = "escaped"
    /\ pc' = [pc EXCEPT ![t] = "dead"]
    /\ new' = [new EXCEPT ![t] = NoObj]
    /\ idx' = [idx EXCEPT ![t] = 0]
    /\ src' = [src EXCEPT ![t] = NoText]
    /\ UNCHANGED <<filepath, event, asked, interval, attr, kind, marker, file,
                   target, instances, heap, nobj, inst, callee, pre, outcome,
                   exc, logs, lastOk>>

\* The sleep is over: next turn of `while True`.
TimerWake(t) ==
    /\ t = "timer"
    /\ pc[t] = "sleep"
    /\ pc' = [pc EXCEPT ![t] = "idle"]
    /\ UNCHANGED <<filepath, event, asked, interval, attr, kind, marker, file,
                   target, instances, heap, nobj, new, idx, inst, callee, src,
                   pre, outcome, exc, logs, lastOk>>

----------------------------------------------------------------------------
Step(t, limit) ==
    \/ ReloadStart(t)
    \/ ReloadAssign(t)
    \/ ReloadRetag(t)
    \/ ReloadLog(t)
    \/ ReloadReturn(t)
    \/ \E x \in Xs : Construct(t, x, limit)
    \/ Register(t)
    \/ ConstructReturn(t)
    \/ FuncCall(t)
    \/ FuncReturn(t)

\* The program reads attributes through the proxy.
Attr(t) ==
    \/ \E n \in Names : GetAttr(t, n)
    \/ GetAttrReturn(t)

\* The program uses the proxy and leaves the reloading to another thread.
Use(t, limit) ==
    \/ \E x \in Xs : Construct(t, x, limit)
    \/ Register(t)
    \/ ConstructReturn(t)
    \/ FuncCall(t)
    \/ FuncReturn(t)

\* The observer thread: one event after the other through on_modified.
Watcher(t) ==
    \/ \E ev \in Events : OnModified(t, ev)
    \/ OnModifiedReturn(t)
    \/ ReloadStart(t)
    \/ ReloadAssign(t)
    \/ ReloadRetag(t)
    \/ ReloadLog(t)
    \/ ReloadReturn(t)

\* The timer thread: _timer_reload.
Timer(t) ==
    \/ ReloadStart(t)
    \/ ReloadAssign(t)
    \/ ReloadRetag(t)
    \/ ReloadLog(t)
    \/ TimerSleep(t)
    \/ TimerDie(t)
    \/ TimerWake(t)

Env(ts) ==
    \/ \E c \in FileContents(kind) : Edit(c, ts)
    \/ \E i \in 1..Len(heap) : Drop(i)

\* The program with one thread: every operation is a manual call.
Next == Env({"main"}) \/ Step("main", MaxInstances)

Spec == Init /\ [][Next]_vars

\* The same program, its definition decorated with @autoreload.
InitAuto == Init /\ marker = "autoreload"

SpecAuto == InitAuto /\ [][Next]_vars

\* The program with the watcher thread reloading beside the main thread,
\* which reloads by manual calls as well.
NextConc ==
    Env({"main", "watch"}) \/ Step("main", MaxConcInstances) \/ Watcher("watch")

SpecConc == Init /\ [][NextConc]_vars

\* The program with one thread that also reads attributes through the proxy
\* between its calls.
NextAttr == Env({"main"}) \/ Step("main", MaxConcInstances) \/ Attr("main")

SpecAttr == Init /\ [][NextAttr]_vars

\* The program as @autoreload sets it up: the watcher thread does the
\* reloading, the main thread uses the proxy.
NextWatch == Env({"watch"}) \/ Use("main", MaxConcInstances) \/ Watcher("watch")

SpecWatch == InitAuto /\ [][NextWatch]_vars

\* The program in timer mode: the main thread starts the timer thread and
\* uses the proxy.
NextTimer ==
    \/ Env({"timer"})
    \/ \E i \in Intervals : StartTimer("main", i)
    \/ Use("main", MaxConcInstances)
    \/ Timer("timer")

SpecTimer == Init /\ [][NextTimer]_vars

----------------------------------------------------------------------------
\* Properties.  A call of _reload() by the main thread is over when
\* pc["main"] = "done": `pre` is the state it started from, src["main"] the
\* file content it ran against, outcome/exc/logs what became of it.

Over == pc["main"] = "done"

\* The instances that were there when the reload began and are still alive.
Survivors == {i \in 1..Len(pre.heap) : pre.heap[i].alive /\ heap[i].alive}

\* No instance has another type than before the reload.
TypesKept == \A i \in Survivors : heap[i].cls = pre.heap[i].cls

\* The reload failed the way the reload of an unparsable file is specified to
\* fail: nothing swapped, nothing retagged, one error logged, normal return.
FailedQuietly ==
    /\ target = pre.target
    /\ TypesKept
    /\ logs["main"] = <<"error">>
    /\ outcome["main"] = "caught"

\* C1: after a successful reload of a class, every instance constructed
\* before it and still alive has the new class as its type and the attribute
\* values it had before.
C1_Retagged ==
    (kind = "class" /\ Over /\ outcome["main"] = "ok") =>
        /\ target = new["main"]
        /\ \A i \in Survivors : /\ heap[i].cls = target
                                /\ heap[i].x = pre.heap[i].x

\* C2: after a successful reload of a function, the proxy holds the function
\* built from the text the reload read, which is not the one held before, and
\* every later call through the proxy runs that function.
C2_CallsNew ==
    /\ (kind = "def" /\ Over /\ outcome["main"] = "ok") =>
           /\ target = new["main"]
           /\ target.id # pre.target.id
           /\ src["main"].state = "good"
           /\ target.ver = src["main"].ver
    /\ \A t \in Threads :
           (pc[t] = "called" /\ lastOk # NoLast) =>
               /\ callee[t] = lastOk.obj
               /\ callee[t].ver = lastOk.text.ver

\* A call through the proxy runs a function built by a reload from a text
\* that differs from the original one.
C2_Witness ==
    /\ kind = "def"
    /\ pc["main"] = "called"
    /\ lastOk # NoLast
    /\ callee["main"].id > 0
    /\ callee["main"].ver # Original.ver

\* C3: a reload against an unparsable file leaves the target and the types of
\* the instances as they were, logs an error and returns normally.
C3_UnparsableKept ==
    (Over /\ src["main"].state = "unparsable") => FailedQuietly

\* C4: a reload against a file that parses but no longer defines the target
\* ends like the reload of an unparsable file: no swap, an error logged, no
\* exception out of _reload().
C4_MissingKept ==
    (Over /\ src["main"].state = "missing") => FailedQuietly

\* C5: when the evaluation of the extracted source fails, _reload() catches
\* the error, logs it, and keeps the target and the types of the instances.
C5_RaisesKept ==
    (Over /\ src["main"].state = "raises") => FailedQuietly

\* C6: a class reload is all or nothing: when it is over, either the target
\* and every instance's type are what they were, or the target is the new
\* class and every live instance has it as its type; a reload that did not
\* succeed is in the first case.
C6_AllOrNothing ==
    (kind = "class" /\ Over) =>
        /\ \/ target = pre.target /\ TypesKept
           \/ /\ target = new["main"]
              /\ target # pre.target
              /\ \A i \in Survivors : heap[i].cls = target
        /\ outcome["main"] # "ok" => (target = pre.target /\ TypesKept)

\* A thread is inside _reload().
InReload(t) == pc[t] \in {"assign", "retag", "log"}

\* C7: at most one _reload() of the proxy is in progress at any time.
C7_OneReload == Cardinality({t \in Threads : InReload(t)}) <= 1

\* C8: with a collected instance in the registry, a reload that runs to its
\* end gives no type to a collected instance and gives the new class to every
\* live registered instance.
C8_DeadSkipped ==
    (kind = "class" /\ Over /\ outcome["main"] = "ok"
       /\ \E i \in 1..Len(pre.heap) : ~pre.heap[i].alive) =>
        /\ \A i \in 1..Len(heap) : ~heap[i].alive => heap[i] = Collected
        /\ \A i \in Survivors : heap[i].cls = target

\* C9: a call of the class proxy returns an instance whose class is the
\* proxy's current target, registered exactly once, after every instance
\* returned before it.
C9_Constructed ==
    pc["main"] = "constructed" =>
        /\ heap[inst["main"]].cls = target
        /\ instances = [i \in 1..Len(heap) |-> i]

\* C10: the proxy's target is a raw class or function, never a reload proxy.
C10_NeverRewrapped == ~target.proxy

\* C11: an attribute that the proxy does not define itself and that its
\* current target has is returned with the value it has on the target.
C11_Forwarded ==
    (pc["main"] = "got" /\ attr.name \notin ProxyOwn /\ attr.name \in AttrsOf(target)) =>
        /\ attr.exc = "none"
        /\ attr.value = <<target.id, attr.name>>

\* C12: in timer mode the loop goes on after every reload, whatever its
\* outcome: the timer thread never ends.
C12_TimerGoesOn == pc["timer"] # "dead"

\* The instances the registry refers to.
Registered == {instances[k] : k \in 1..Len(instances)}

\* C13: on_modified calls _reload() for an event exactly when the event is
\* not a directory event and its path is the path of the source file, and it
\* calls it once, in the thread of the callback.
C13_FilteredOnce ==
    /\ pc["watch"] = "wait" => event = NoEvent
    /\ pc["watch"] = "ignored" =>
           /\ event.isDir \/ event.path # SourcePath
           /\ event.calls = 0
    /\ pc["watch"] = "idle" =>
           /\ ~event.isDir /\ event.path = SourcePath
           /\ event.calls = 0
    /\ pc["watch"] \in {"assign", "retag", "log", "done"} =>
           /\ ~event.isDir /\ event.path = SourcePath
           /\ event.calls = 1

\* The call of _reload() made for an event on the source file is over, and
\* it has installed a new definition.
C13_Witness ==
    /\ pc["watch"] = "done"
    /\ outcome["watch"] = "ok"
    /\ event = [isDir |-> FALSE, path |-> SourcePath, calls |-> 1]
    /\ target.id > 0

\* C14: the timer thread sleeps for the interval that _start_timer_reload
\* was given.
C14_SleepsAsAsked == pc["timer"] = "sleep" => interval = asked

\* C15: a successful reload installs the definition built from the content
\* the file has when the reload reads it, and the function proxy reads the
\* path it was constructed with.
C15_ReadsFresh ==
    /\ (Over /\ outcome["main"] = "ok") =>
           /\ src["main"] = file
           /\ file.state = "good"
           /\ target = new["main"]
           /\ target.ver = file.ver
           /\ target.layout = file.layout
    /\ kind = "def" => (filepath = SourcePath /\ ReadPath = SourcePath)

\* A successful reload after an edit: the body installed is not the one the
\* proxy held before.
C15_Witness ==
    /\ Over
    /\ outcome["main"] = "ok"
    /\ target.ver # pre.target.ver
    /\ target.ver = file.ver

\* C16: a call of _reload() emits exactly one log record: an informational
\* one when it succeeds (for a class, with the swap made and every live
\* instance retagged), an error one when it fails.
C16_OneRecord ==
    Over =>
        /\ Len(logs["main"]) = 1
        /\ outcome["main"] = "ok" => logs["main"] = <<"info">>
        /\ outcome["main"] # "ok" => logs["main"] = <<"error">>
        /\ (kind = "class" /\ logs["main"] = <<"info">>) =>
               /\ target = new["main"]
               /\ \A i \in Survivors : heap[i].cls = target

\* C17: when a construct call and a successful reload that ran beside it are
\* both over, every live instance returned by the proxy has the proxy's
\* current class as its type.
C17_NoneLeftBehind ==
    (kind = "class" /\ pc["watch"] = "done" /\ outcome["watch"] = "ok"
       /\ pc["main"] \in {"idle", "constructed"}) =>
        \A i \in Registered : heap[i].alive => heap[i].cls = target

\* The thread whose reload read the file last: objects are numbered in the
\* order in which the reloads read the file and built them.
LastReader == IF new["main"].id > new["watch"].id THEN "main" ELSE "watch"

\* C18: when two reloads of a class that ran beside each other are both
\* over, the current class is the one built from the content read last and
\* every live registered instance has it as its type.
C18_LatestWins ==
    (kind = "class" /\ pc["main"] = "done" /\ pc["watch"] = "done"
       /\ outcome["main"] = "ok" /\ outcome["watch"] = "ok") =>
        /\ target.ver = src[LastReader].ver
        /\ target.layout = src[LastReader].layout
        /\ \A i \in Registered : heap[i].alive => heap[i].cls = target

\* C19: the registry is append-only: it lists the instances in the order of
\* their construction, one entry for each completed construct call, dead or
\* alive, whatever was reloaded or collected since.
C19_AppendOnly ==
    /\ instances = [k \in 1..Len(instances) |-> k]
    /\ Len(instances) = Len(heap) - (IF pc["main"] = "register" THEN 1 ELSE 0)

\* A reload is over with two instances registered, one of them collected.
C19_Witness ==
    /\ Over
    /\ Len(instances) = 2
    /\ \E i \in Registered : ~heap[i].alive
    /\ \E i \in Registered : heap[i].alive

====
